---- MODULE Spec2Model ----
(***************************************************************************)
(* MultiProcessDataLoader (allennlp/data/data_loaders/                     *)
(* multi_process_data_loader.py): configuration validation, the record     *)
(* cache, the batch builder, the worker / JoinableQueue fan-in protocol    *)
(* with its teardown, and the fixed-length epochs of __iter__.             *)
(*                                                                         *)
(* A Python Optional is a set: {} is None, {v} is the value v.             *)
(* The JoinableQueue is modelled by what multiprocessing gives it: a FIFO  *)
(* (put keeps each producer's order; producers interleave), a semaphore of *)
(* maxsize slots taken by put and released by get, and a count of          *)
(* unfinished tasks raised by put, lowered by task_done (ValueError at 0)  *)
(* and awaited to be zero by join.                                         *)
(***************************************************************************)
EXTENDS Integers, Sequences, FiniteSets, TLC

\* ------------------------------------------------------------- bounds
MaxWorkers == 2
MaxShard == 2
MaxMem == 2
MaxBatch == 2
MaxEpoch == 2
\* the batch builder on its own is run on longer sources
MaxRecords == 7
MaxBatchSize == 3
MaxInMemory == 4
\* apply_token_indexers calls on one Instance are counted up to MaxApplied;
\* calls beyond that are not told apart
MaxApplied == 3

VARIABLES
    ctor,            \* "new", "loading", "ok", or the error __init__ raised
    cfg,             \* the arguments of __init__ (self.batch_size, ...)
    vocab,           \* self._vocab is not None
    instances,       \* self._instances: {} (None) or {<<records>>}
    gen,             \* the _iter_batches generator __iter__ draws from
    genBatches,      \* in-process pass: the batches the generator builds
    genPos,          \* in-process pass: how many of them it has yielded
    refreshing,      \* __iter__ is inside its except StopIteration handler
    call,            \* the caller's current operation and its progress
    lastResult,      \* how the last finished operation ended
    mainPc,          \* where the main process stands
    owner,           \* which generator owns the live queue and workers
    queue,           \* messages put and not yet got, in order
    maxsize,         \* the queue's maxsize: {} (unbounded) or {n}
    unfinished,      \* JoinableQueue._unfinished_tasks
    wpc,             \* each worker's position in its function
    wpos,            \* each worker's count of values put
    sent,            \* history: the kinds of message each worker has put
    done_count,      \* done_count of the fan-in loop
    inHand,          \* the value yielded and not yet task_done: {} or {m}
    joinI,           \* loop index of _join_workers
    pending,         \* how the generator ends once _join_workers is through
    errText,         \* the text of the WorkerError being raised
    yielded          \* history: per worker, the values the loop has yielded

vars == <<ctor, cfg, vocab, instances, gen, genBatches, genPos, refreshing,
          call, lastResult, mainPc, owner, queue, maxsize, unfinished, wpc,
          wpos, sent, done_count, inHand, joinI, pending, errText, yielded>>

\* ------------------------------------------------------------ helpers
IsNone(x) == x = {}

Val(x) == CHOOSE v \in x : TRUE

Max(a, b) == IF a >= b THEN a ELSE b

Min(a, b) == IF a <= b THEN a ELSE b

Opt(S) == {{}} \cup {{v} : v \in S}

\* ------------------------------------------------- __init__ validation
\* SamplerCheck without its elif branch
SamplerCheckNoElif(a) ==
    IF ~IsNone(a.batch_sampler) /\ ~IsNone(a.batch_size)
        THEN "batch_sampler option is mutually exclusive with batch_size"
    ELSE IF ~IsNone(a.batch_sampler) /\ a.drop_last
        THEN "batch_sampler option is mutually exclusive with drop_last"
    ELSE IF ~IsNone(a.batch_sampler) /\ a.shuffle
        THEN "batch_sampler option is mutually exclusive with shuffle"
    ELSE "ok"

\* if batch_sampler is not None: ... elif batch_size is None: ...
SamplerCheck(a) ==
    IF ~IsNone(a.batch_sampler) /\ ~IsNone(a.batch_size)
        THEN "batch_sampler option is mutually exclusive with batch_size"
    ELSE IF ~IsNone(a.batch_sampler) /\ a.drop_last
        THEN "batch_sampler option is mutually exclusive with drop_last"
    ELSE IF ~IsNone(a.batch_sampler) /\ a.shuffle
        THEN "batch_sampler option is mutually exclusive with shuffle"
    ELSE IF IsNone(a.batch_sampler) /\ IsNone(a.batch_size)
        THEN "batch_size is required when batch_sampler is not supplied"
    ELSE "ok"

\* if batches_per_epoch is not None and batches_per_epoch < 1
EpochCheck(a) ==
    IF ~IsNone(a.batches_per_epoch) /\ Val(a.batches_per_epoch) < 1
        THEN "batches_per_epoch must be at least 1"
        ELSE "ok"

\* MemoryCheck that compares with batch_size only
MemoryCheckBatchOnly(a) ==
    IF IsNone(a.max_instances_in_memory)
        THEN "ok"
    ELSE IF ~IsNone(a.batch_size)
            /\ Val(a.max_instances_in_memory) < Val(a.batch_size)
        THEN "max_instances_in_memory must be at least batch_size"
    ELSE "ok"

\* if max_instances_in_memory is not None: ... elif ...
MemoryCheck(a) ==
    IF IsNone(a.max_instances_in_memory)
        THEN "ok"
    ELSE IF ~IsNone(a.batch_size)
            /\ Val(a.max_instances_in_memory) < Val(a.batch_size)
        THEN "max_instances_in_memory must be at least batch_size"
    ELSE IF Val(a.max_instances_in_memory) < 1
        THEN "max_instances_in_memory must be at least 1"
    ELSE "ok"

\* The checks of __init__ in the order the code makes them; "ok" when none
\* raises.
ValidationError(a) ==
    IF a.num_workers < 0
        THEN "num_workers cannot be a negative number"
    ELSE IF ~IsNone(a.batch_size) /\ Val(a.batch_size) < 1
        THEN "batch_size must be at least 1"
    ELSE IF SamplerCheck(a) # "ok"
        THEN SamplerCheck(a)
    ELSE IF EpochCheck(a) # "ok"
        THEN EpochCheck(a)
    ELSE IF MemoryCheck(a) # "ok"
        THEN MemoryCheck(a)
    ELSE IF a.pin_memory /\ a.num_workers > 0 /\ a.start_method # "spawn"
        THEN "start_method must be set to 'spawn' when using memory pinning"
    ELSE IF /\ ~IsNone(a.device)
            /\ a.device # {"cpu"}
            /\ a.num_workers # 0
            /\ a.start_method # "spawn"
        THEN "start_method must be set to 'spawn' for a CUDA device"
    ELSE "ok"

\* self._max_instance_queue_size
max_instance_queue_size ==
    IF IsNone(cfg.max_instances_in_memory)
        THEN {}
        ELSE {Val(cfg.max_instances_in_memory) * 4}

\* self._max_batch_queue_size; (batch_size or 1) is 1 for None
max_batch_queue_size ==
    IF IsNone(cfg.max_instances_in_memory)
        THEN {}
        ELSE {(4 * Val(cfg.max_instances_in_memory))
                 \div (IF IsNone(cfg.batch_size) THEN 1 ELSE Val(cfg.batch_size))}

\* ---------------------------------------------------------- the source
\* reader.read(data_path): shard w of the source is shard[w].len records,
\* and the read then ends or, with shard[w].fails, raises. With
\* num_workers = 0 the one shard is the whole source, read in process.
NumShards(a) == Max(a.num_workers, 1)

\* An Instance is <<w, j, c>>: record j of shard w, on which
\* reader.apply_token_indexers has been called c times. The reader hands
\* out new Instance objects at every read.
Records(a, w) == [j \in 1..a.reader[w].len |-> <<w, j, 0>>]

\* which record of the source an Instance is
Id(r) == <<r[1], r[2]>>

\* self.reader.apply_token_indexers(instance)
apply_token_indexers(r) == <<r[1], r[2], Min(r[3] + 1, MaxApplied)>>

\* an _index_instance that leaves apply_token_indexers to its caller
index_instance_bare(r) == r

\* _index_instance(instance)
index_instance(r) == apply_token_indexers(r)

\* (self._index_instance(instance) for instance in instance_iterator), run
\* to its end
IndexAll(s) == [i \in 1..Len(s) |-> index_instance(s[i])]

\* iter_instances with num_workers <= 0: each instance read gets
\* apply_token_indexers before it is cached and yielded
ReadInProcess(a) ==
    [j \in 1..a.reader[1].len |-> apply_token_indexers(Records(a, 1)[j])]

\* _gather_instances: the instance of a message gets apply_token_indexers
\* before it is yielded
Gathered(a, m) == apply_token_indexers(Records(a, m.w)[m.j])

\* ---------------------------------------------------- the batch builder
\* allennlp.common.util.lazy_groups_of: contiguous groups of n, the last
\* one shorter when the sequence does not divide.
RECURSIVE lazy_groups_of(_, _)
lazy_groups_of(s, n) ==
    IF Len(s) = 0
        THEN <<>>
        ELSE LET k == Min(n, Len(s))
             IN <<SubSeq(s, 1, k)>> \o lazy_groups_of(SubSeq(s, k + 1, Len(s)), n)

\* The window of _instances_to_batches when max_instances_in_memory is set.
ChunkSize(a) ==
    LET m == Max(1, Val(a.max_instances_in_memory) \div Max(a.num_workers, 1))
        b == Val(a.batch_size)
    IN IF m > 1 /\ ~IsNone(a.batch_size) /\ b > 1
           THEN ((m + b - 1) \div b) * b
           ELSE m

\* The batches of one window: groups of batch_size; with drop_last the loop
\* breaks at the first group shorter than batch_size.
RECURSIVE UntilShort(_, _)
UntilShort(groups, b) ==
    IF Len(groups) = 0 \/ Len(Head(groups)) < b
        THEN <<>>
        ELSE <<Head(groups)>> \o UntilShort(Tail(groups), b)

\* ChunkBatches without the drop_last test
ChunkBatchesKeepAll(a, chunk) == lazy_groups_of(chunk, Val(a.batch_size))

ChunkBatches(a, chunk) ==
    LET groups == lazy_groups_of(chunk, Val(a.batch_size))
    IN IF a.drop_last THEN UntilShort(groups, Val(a.batch_size)) ELSE groups

RECURSIVE Flatten(_)
Flatten(ss) == IF Len(ss) = 0 THEN <<>> ELSE Head(ss) \o Flatten(Tail(ss))

\* _instances_to_batches over a finite record sequence (shuffle off, no
\* sampler): the batches in the order the generator yields them.
instances_to_batches(a, s) ==
    LET chunks == IF IsNone(a.max_instances_in_memory)
                      THEN <<IndexAll(s)>>
                      ELSE lazy_groups_of(IndexAll(s), ChunkSize(a))
    IN Flatten([i \in 1..Len(chunks) |-> ChunkBatches(a, chunks[i])])

\* What a batch worker's _instances_to_batches gets through before the read
\* raises: the windows it has pulled whole.
BatchWorkerRecords(a, w) ==
    IF a.reader[w].fails
        THEN SubSeq(Records(a, w), 1,
                    (a.reader[w].len \div ChunkSize(a)) * ChunkSize(a))
        ELSE Records(a, w)

BatchValues(a, w) == instances_to_batches(a, BatchWorkerRecords(a, w))

\* __len__ for fixed-size batches over n cached records
NumBatchesCeil(a, n) ==
    IF n % Val(a.batch_size) = 0
        THEN n \div Val(a.batch_size)
        ELSE 1 + n \div Val(a.batch_size)

NumBatches(a, n) ==
    IF a.drop_last \/ n % Val(a.batch_size) = 0
        THEN n \div Val(a.batch_size)
        ELSE 1 + n \div Val(a.batch_size)

\* ---------------------------------------------------------- arguments
Reader(nw) ==
    [1..Max(nw, 1) -> [len : 0..MaxShard, fails : IF nw > 0 THEN BOOLEAN ELSE {FALSE}]]

NoReader == [w \in 1..1 |-> [len |-> 0, fails |-> FALSE]]

\* Every combination of arguments, the invalid ones included.
AllArgs ==
    [batch_size : Opt(0..MaxBatch), drop_last : BOOLEAN, shuffle : BOOLEAN,
     batch_sampler : Opt({"sampler"}), batches_per_epoch : Opt(0..MaxEpoch),
     num_workers : -1..MaxWorkers, max_instances_in_memory : Opt(0..MaxMem),
     start_method : {"fork", "spawn"}, pin_memory : BOOLEAN,
     device : Opt({"cpu", "cuda"}), reader : {NoReader}]

\* The arguments the loader is run with: fixed-size batching without
\* shuffling, every shard of every length, failing or not.
Args(epochs) ==
    UNION {[batch_size : Opt(1..MaxBatch) \ {{}}, drop_last : BOOLEAN,
            shuffle : {FALSE}, batch_sampler : {{}},
            batches_per_epoch : epochs, num_workers : {nw},
            max_instances_in_memory : Opt(1..MaxMem),
            start_method : {"fork"}, pin_memory : {FALSE}, device : {{}},
            reader : Reader(nw)] : nw \in 0..MaxWorkers}

RunArgs == Args({{}})

EpochArgs == Args(Opt(1..MaxEpoch))

NoArgs ==
    [batch_size |-> {}, drop_last |-> FALSE, shuffle |-> FALSE,
     batch_sampler |-> {}, batches_per_epoch |-> {}, num_workers |-> 0,
     max_instances_in_memory |-> {}, start_method |-> "fork",
     pin_memory |-> FALSE, device |-> {}, reader |-> NoReader]

\* --------------------------------------------------------------- state
NoCall == [op |-> "none", i |-> 0]

\* no operation under way; i is what the last one yielded before it ended,
\* or the number __len__ returned
Ended(i) == [op |-> "none", i |-> i]

NoWorkers == [w \in 1..MaxWorkers |-> "none"]

Init ==
    /\ ctor = "new"
    /\ cfg = NoArgs
    /\ vocab = FALSE
    /\ instances = {}
    /\ gen = "None"
    /\ genBatches = <<>>
    /\ genPos = 0
    /\ refreshing = FALSE
    /\ call = NoCall
    /\ lastResult = "none"
    /\ mainPc = "caller"
    /\ owner = "none"
    /\ queue = <<>>
    /\ maxsize = {}
    /\ unfinished = 0
    /\ wpc = NoWorkers
    /\ wpos = [w \in 1..MaxWorkers |-> 0]
    /\ sent = [w \in 1..MaxWorkers |-> <<>>]
    /\ done_count = 0
    /\ inHand = {}
    /\ joinI = 0
    /\ pending = "none"
    /\ errText = 0
    /\ yielded = [w \in 1..MaxWorkers |-> <<>>]

streamVars == <<owner, queue, maxsize, unfinished, wpc, wpos, sent, done_count,
                inHand, joinI, pending, errText, yielded>>

genVars == <<gen, genBatches, genPos, refreshing>>

\* _start_instance_workers / _start_batch_workers on a new JoinableQueue of
\* maxsize cap: every worker is started, the fan-in loop is entered.
StartWorkers(a, o, cap) ==
    /\ owner' = o
    /\ queue' = <<>>
    /\ maxsize' = cap
    /\ unfinished' = 0
    /\ wpc' = [w \in 1..MaxWorkers |-> IF w <= a.num_workers THEN "run" ELSE "none"]
    /\ wpos' = [w \in 1..MaxWorkers |-> 0]
    /\ sent' = [w \in 1..MaxWorkers |-> <<>>]
    /\ done_count' = 0
    /\ inHand' = {}
    /\ joinI' = 0
    /\ pending' = "none"
    /\ errText' = 0
    /\ yielded' = [w \in 1..MaxWorkers |-> <<>>]
    /\ mainPc' = "get"

\* __init__: the validation, then the assignments, then, with
\* max_instances_in_memory None, deque(self.iter_instances(), maxlen=0).
Construct(a) ==
    /\ ctor = "new"
    /\ cfg' = a
    /\ UNCHANGED <<vocab, genVars, lastResult>>
    /\ IF ValidationError(a) # "ok"
          THEN /\ ctor' = ValidationError(a)
               /\ UNCHANGED <<instances, call, mainPc, streamVars>>
       ELSE IF ~IsNone(a.max_instances_in_memory)
          THEN /\ ctor' = "ok"
               /\ UNCHANGED <<instances, call, mainPc, streamVars>>
       ELSE IF a.num_workers <= 0
          THEN /\ ctor' = "ok"
               /\ instances' = {ReadInProcess(a)}
               /\ UNCHANGED <<call, mainPc, streamVars>>
       ELSE /\ ctor' = "loading"
            /\ instances' = {<<>>}
            /\ call' = [op |-> "init", i |-> 0]
            /\ StartWorkers(a, "init", {})

ConstructAny == ctor = "new" /\ \E a \in AllArgs : Construct(a)

NextInit == ConstructAny

SpecInit == Init /\ [][NextInit]_vars

\* ------------------------------------------------------- JoinableQueue
Value(w, j) == [kind |-> "V", w |-> w, j |-> j]

\* (None, (str(e), traceback)): the text stands for the worker's exception
Error(w) == [kind |-> "E", w |-> w, j |-> 0]

\* (None, None): carries nothing
Done == [kind |-> "D", w |-> 0, j |-> 0]

\* a queue whose put never blocks
HasRoomAlways == TRUE

\* put blocks while the queue holds maxsize messages
HasRoom == IF IsNone(maxsize) THEN TRUE ELSE Len(queue) < Val(maxsize)

\* a queue that hands out the newest message first
EnqueueFront(q, m) == <<m>> \o q

Enqueue(q, m) == Append(q, m)

\* queue.put(m) by worker w
Put(w, m) ==
    /\ HasRoom
    /\ queue' = Enqueue(queue, m)
    /\ unfinished' = unfinished + 1
    /\ sent' = [sent EXCEPT ![w] = Append(@, m.kind)]

\* a task_done that notifies the workers in join at every call
TaskDoneNotifyAlways ==
    /\ unfinished > 0
    /\ unfinished' = unfinished - 1
    /\ wpc' = [w \in 1..MaxWorkers |->
                 IF wpc[w] = "wait" THEN "released" ELSE wpc[w]]

\* queue.task_done(): the count goes down; reaching zero it notifies every
\* worker waiting in join
TaskDone ==
    /\ unfinished > 0
    /\ unfinished' = unfinished - 1
    /\ wpc' = [w \in 1..MaxWorkers |->
                 IF unfinished = 1 /\ wpc[w] = "wait" THEN "released" ELSE wpc[w]]

Alive(w) == wpc[w] \in {"run", "fin", "join", "wait", "released"}

\* ------------------------------------------------------------- workers
Workers == 1..cfg.num_workers

\* The values worker w puts when its read goes as the source has it: the
\* records of its shard (_instance_worker) or the batches built from them
\* (_batch_worker).
NumValues(w) ==
    IF owner = "batch" THEN Len(BatchValues(cfg, w)) ELSE cfg.reader[w].len

\* queue.put((instance, None)) / queue.put((batch, None)) in the for loop
WorkerPutValue(w) ==
    /\ wpc[w] = "run"
    /\ wpos[w] < NumValues(w)
    /\ Put(w, Value(w, wpos[w] + 1))
    /\ wpos' = [wpos EXCEPT ![w] = @ + 1]
    /\ UNCHANGED <<ctor, cfg, vocab, instances, genVars, call, lastResult,
                   mainPc, owner, maxsize, wpc, done_count, inHand, joinI,
                   pending, errText, yielded>>

\* WorkerPutError with the Done put inside the try block: after the error
\* the worker goes straight to queue.join()
WorkerPutErrorNoDone(w) ==
    /\ wpc[w] = "run"
    /\ wpos[w] = NumValues(w)
    /\ cfg.reader[w].fails
    /\ Put(w, Error(w))
    /\ wpc' = [wpc EXCEPT ![w] = "join"]
    /\ UNCHANGED <<ctor, cfg, vocab, instances, genVars, call, lastResult,
                   mainPc, owner, maxsize, wpos, done_count, inHand, joinI,
                   pending, errText, yielded>>

\* the read raises: except Exception: queue.put((None, (str(e), tb)))
WorkerPutError(w) ==
    /\ wpc[w] = "run"
    /\ wpos[w] = NumValues(w)
    /\ cfg.reader[w].fails
    /\ Put(w, Error(w))
    /\ wpc' = [wpc EXCEPT ![w] = "fin"]
    /\ UNCHANGED <<ctor, cfg, vocab, instances, genVars, call, lastResult,
                   mainPc, owner, maxsize, wpos, done_count, inHand, joinI,
                   pending, errText, yielded>>

\* queue.put((None, None)), after the loop ended or the error was put
WorkerPutDone(w) ==
    /\ \/ wpc[w] = "fin"
       \/ wpc[w] = "run" /\ wpos[w] = NumValues(w) /\ ~cfg.reader[w].fails
    /\ Put(w, Done)
    /\ wpc' = [wpc EXCEPT ![w] = "join"]
    /\ UNCHANGED <<ctor, cfg, vocab, instances, genVars, call, lastResult,
                   mainPc, owner, maxsize, wpos, done_count, inHand, joinI,
                   pending, errText, yielded>>

\* queue.join(): returns at once when nothing is unfinished, else waits for
\* the notification
WorkerJoin(w) ==
    /\ wpc[w] = "join"
    /\ wpc' = [wpc EXCEPT ![w] = IF unfinished = 0 THEN "exited" ELSE "wait"]
    /\ UNCHANGED <<ctor, cfg, vocab, instances, genVars, call, lastResult,
                   mainPc, owner, queue, maxsize, unfinished, wpos, sent,
                   done_count, inHand, joinI, pending, errText, yielded>>

\* join has returned: the worker function returns and the process exits
WorkerExit(w) ==
    /\ wpc[w] = "released"
    /\ wpc' = [wpc EXCEPT ![w] = "exited"]
    /\ UNCHANGED <<ctor, cfg, vocab, instances, genVars, call, lastResult,
                   mainPc, owner, queue, maxsize, unfinished, wpos, sent,
                   done_count, inHand, joinI, pending, errText, yielded>>

\* ---------------------------------------------------- the fan-in loop
\* The drains (deque(...) in __init__ and __len__, list(...) in
\* _instances_to_batches) resume the generator at once; a caller's generator stays suspended at
\* its yield until the caller asks again.
Drained == owner \in {"init", "gather", "len"}

\* a loop that ends with the first worker's Done
FanInDoneFirst(n) == n >= 1

\* a loop that waits for one Done more than there are workers
FanInDoneLate(n) == n > cfg.num_workers

\* the loop bound of _gather_instances and _iter_batches
FanInDone(n) == n >= cfg.num_workers

\* queue.get() in iter(queue.get, (None, None)) returns a value: the loop
\* body runs up to its yield
GetValue ==
    /\ mainPc = "get"
    /\ Len(queue) > 0
    /\ Head(queue).kind = "V"
    /\ queue' = Tail(queue)
    /\ inHand' = {Head(queue)}
    /\ yielded' = [yielded EXCEPT ![Head(queue).w] = Append(@, Head(queue).j)]
    /\ instances' = IF owner # "batch" /\ IsNone(cfg.max_instances_in_memory)
                        THEN {Append(Val(instances), Gathered(cfg, Head(queue)))}
                        ELSE instances
    /\ mainPc' = IF Drained THEN "resume" ELSE "caller"
    /\ call' = IF Drained THEN call ELSE [call EXCEPT !.i = @ + 1]
    /\ refreshing' = FALSE
    /\ UNCHANGED <<ctor, cfg, vocab, gen, genBatches, genPos, lastResult, owner,
                   maxsize, unfinished, wpc, wpos, sent, done_count, pending,
                   errText, joinI>>

\* GetError without the try/finally around the loop: the raise leaves the
\* generator at once
GetErrorNoFinally ==
    /\ mainPc = "get"
    /\ Len(queue) > 0
    /\ Head(queue).kind = "E"
    /\ queue' = Tail(queue)
    /\ errText' = Head(queue).w
    /\ pending' = "error"
    /\ mainPc' = "joined"
    /\ joinI' = 0
    /\ UNCHANGED <<ctor, cfg, vocab, instances, genVars, call, lastResult,
                   owner, maxsize, unfinished, wpc, wpos, sent, done_count,
                   inHand, yielded>>

\* queue.get() returns a worker's error: raise WorkerError(e), into the
\* finally block
GetError ==
    /\ mainPc = "get"
    /\ Len(queue) > 0
    /\ Head(queue).kind = "E"
    /\ queue' = Tail(queue)
    /\ errText' = Head(queue).w
    /\ pending' = "error"
    /\ mainPc' = "join_ack"
    /\ joinI' = 0
    /\ UNCHANGED <<ctor, cfg, vocab, instances, genVars, call, lastResult,
                   owner, maxsize, unfinished, wpc, wpos, sent, done_count,
                   inHand, yielded>>

\* queue.get() returns (None, None): the inner loop ends, done_count += 1,
\* and the outer loop ends with the last worker's
GetDone ==
    /\ mainPc = "get"
    /\ Len(queue) > 0
    /\ Head(queue).kind = "D"
    /\ queue' = Tail(queue)
    /\ done_count' = done_count + 1
    /\ IF FanInDone(done_count + 1)
          THEN pending' = "stop" /\ mainPc' = "join_ack" /\ joinI' = 0
          ELSE UNCHANGED <<pending, mainPc, joinI>>
    /\ UNCHANGED <<ctor, cfg, vocab, instances, genVars, call, lastResult,
                   owner, maxsize, unfinished, wpc, wpos, sent, inHand,
                   errText, yielded>>

\* a loop body without queue.task_done()
ConsumerResumeNoAck ==
    /\ mainPc = "resume"
    /\ inHand' = {}
    /\ mainPc' = "get"
    /\ UNCHANGED <<ctor, cfg, vocab, instances, genVars, call, lastResult,
                   owner, queue, maxsize, unfinished, wpc, wpos, sent,
                   done_count, joinI, pending, errText, yielded>>

\* the generator is resumed after its yield: queue.task_done()
ConsumerResume ==
    /\ mainPc = "resume"
    /\ TaskDone
    /\ inHand' = {}
    /\ mainPc' = "get"
    /\ UNCHANGED <<ctor, cfg, vocab, instances, genVars, call, lastResult,
                   owner, queue, maxsize, wpos, sent, done_count, joinI,
                   pending, errText, yielded>>

\* ------------------------------------------------------- _join_workers
\* a first loop that calls task_done until it raises ValueError
JoinAckAll ==
    /\ mainPc = "join_ack"
    /\ IF unfinished > 0
          THEN TaskDone /\ joinI' = joinI + 1 /\ UNCHANGED mainPc
          ELSE mainPc' = "join_term" /\ joinI' = 0 /\ UNCHANGED <<unfinished, wpc>>
    /\ UNCHANGED <<ctor, cfg, vocab, instances, genVars, call, lastResult,
                   owner, queue, maxsize, wpos, sent, done_count, inHand,
                   pending, errText, yielded>>

\* for _ in range(len(workers)): queue.task_done(), leaving the loop at the
\* first ValueError
JoinAck ==
    /\ mainPc = "join_ack"
    /\ IF joinI < cfg.num_workers /\ unfinished > 0
          THEN TaskDone /\ joinI' = joinI + 1 /\ UNCHANGED mainPc
          ELSE mainPc' = "join_term" /\ joinI' = 0 /\ UNCHANGED <<unfinished, wpc>>
    /\ UNCHANGED <<ctor, cfg, vocab, instances, genVars, call, lastResult,
                   owner, queue, maxsize, wpos, sent, done_count, inHand,
                   pending, errText, yielded>>

\* _join_workers without its second loop
TerminateNone(pcs, w) == pcs

\* worker.terminate() of a worker that is_alive()
Terminate(pcs, w) ==
    [pcs EXCEPT ![w] = IF Alive(w) THEN "terminated" ELSE @]

\* for worker in workers: if worker.is_alive(): worker.terminate()
JoinTerminate ==
    /\ mainPc = "join_term"
    /\ joinI < cfg.num_workers
    /\ wpc' = Terminate(wpc, joinI + 1)
    /\ joinI' = joinI + 1
    /\ UNCHANGED <<ctor, cfg, vocab, instances, genVars, call, lastResult,
                   mainPc, owner, queue, maxsize, unfinished, wpos, sent,
                   done_count, inHand, pending, errText, yielded>>

\* the last worker has been looked at: _join_workers returns
JoinDone ==
    /\ mainPc = "join_term"
    /\ joinI = cfg.num_workers
    /\ mainPc' = "joined"
    /\ UNCHANGED <<ctor, cfg, vocab, instances, genVars, call, lastResult,
                   owner, queue, maxsize, unfinished, wpc, wpos, sent,
                   done_count, inHand, joinI, pending, errText, yielded>>

\* The finally block is left: the generator ends (StopIteration), raises
\* WorkerError, or is closed. The queue and the Process objects go with the
\* generator's frame.
JoinReturn ==
    /\ mainPc = "joined"
    /\ owner' = "none"
    /\ queue' = <<>>
    /\ maxsize' = {}
    /\ unfinished' = 0
    /\ wpc' = [w \in 1..MaxWorkers |-> IF Alive(w) THEN wpc[w] ELSE "none"]
    /\ wpos' = [w \in 1..MaxWorkers |-> 0]
    /\ sent' = [w \in 1..MaxWorkers |-> <<>>]
    /\ done_count' = 0
    /\ inHand' = {}
    /\ joinI' = 0
    /\ pending' = "none"
    /\ errText' = 0
    /\ yielded' = [w \in 1..MaxWorkers |-> <<>>]
    /\ UNCHANGED <<cfg, vocab>>
    /\ instances' = IF owner = "gather" /\ pending = "stop"
                        THEN {IndexAll(Val(instances))} ELSE instances
    /\ CASE owner = "init" ->
              /\ ctor' = IF pending = "stop" THEN "ok" ELSE "WorkerError"
              /\ call' = NoCall
              /\ mainPc' = "caller"
              /\ UNCHANGED <<genVars, lastResult>>
         [] owner = "len" ->
              /\ call' = IF pending = "stop"
                             THEN Ended(NumBatches(cfg, Len(Val(instances))))
                             ELSE NoCall
              /\ lastResult' = IF pending = "stop" THEN "length" ELSE "WorkerError"
              /\ mainPc' = "caller"
              /\ UNCHANGED <<ctor, genVars>>
         [] owner = "inst" ->
              /\ call' = IF pending = "close" THEN NoCall ELSE Ended(call.i)
              /\ lastResult' = CASE pending = "stop" -> "returned"
                                 [] pending = "error" -> "WorkerError"
                                 [] OTHER -> "none"
              /\ mainPc' = "caller"
              /\ UNCHANGED <<ctor, genVars>>
         [] owner = "gather" /\ pending = "stop" ->
              /\ gen' = "inproc"
              /\ genBatches' = instances_to_batches(cfg, Val(instances))
              /\ genPos' = 0
              /\ mainPc' = "pnext"
              /\ UNCHANGED <<ctor, call, lastResult, refreshing>>
         [] owner = "batch" /\ pending = "stop" ->
              /\ gen' = "dead"
              /\ mainPc' = "pexh"
              /\ UNCHANGED <<ctor, call, lastResult, genBatches, genPos, refreshing>>
         [] OTHER ->
              /\ gen' = IF pending = "error" /\ ~IsNone(cfg.batches_per_epoch)
                           THEN "dead" ELSE "None"
              /\ call' = IF pending = "error" THEN Ended(call.i) ELSE NoCall
              /\ lastResult' = IF pending = "error" THEN "WorkerError" ELSE "none"
              /\ refreshing' = FALSE
              /\ mainPc' = "caller"
              /\ UNCHANGED <<ctor, genBatches, genPos>>

\* ------------------------------------------------------ _iter_batches
\* an iter_instances that reads the source again after the cache
InstListReread ==
    IF ~IsNone(instances) /\ Len(Val(instances)) > 0
        THEN Val(instances) \o ReadInProcess(cfg)
        ELSE ReadInProcess(cfg)

\* What iter_instances() goes through in the main process: the cache when
\* it holds records, else the source.
InstList ==
    IF ~IsNone(instances) /\ Len(Val(instances)) > 0
        THEN Val(instances)
        ELSE ReadInProcess(cfg)

InProcess == (~IsNone(instances) /\ Len(Val(instances)) > 0) \/ cfg.num_workers <= 0

\* a branch test that looks at num_workers only
BatchesInProcessAnyCache == cfg.num_workers <= 0

\* _iter_batches: if self._instances is not None or self.num_workers <= 0
BatchesInProcess == ~IsNone(instances) \/ cfg.num_workers <= 0

\* next() on the _iter_batches generator: its body starts (in process from
\* iter_instances(), or on a queue of batch workers), or it goes on from
\* its last yield.
PassNext ==
    /\ mainPc = "pnext"
    /\ UNCHANGED <<ctor, cfg, vocab, lastResult>>
    /\ CASE gen = "fresh" /\ BatchesInProcess
                          /\ ~IsNone(instances) /\ Len(Val(instances)) > 0 ->
              \* iter_instances: yield from self._instances
              /\ gen' = "inproc"
              /\ genBatches' = instances_to_batches(cfg, InstList)
              /\ genPos' = 0
              /\ instances' = {IndexAll(Val(instances))}
              /\ UNCHANGED <<refreshing, call, mainPc, streamVars>>
         [] gen = "fresh" /\ BatchesInProcess
                          /\ ~(~IsNone(instances) /\ Len(Val(instances)) > 0)
                          /\ cfg.num_workers <= 0 ->
              \* iter_instances: reader.read in the main process
              /\ gen' = "inproc"
              /\ genBatches' = instances_to_batches(cfg, InstList)
              /\ genPos' = 0
              /\ instances' = IF IsNone(cfg.max_instances_in_memory)
                                  THEN {IndexAll(InstList)} ELSE instances
              /\ UNCHANGED <<refreshing, call, mainPc, streamVars>>
         [] gen = "fresh" /\ BatchesInProcess
                          /\ ~IsNone(instances) /\ Len(Val(instances)) = 0
                          /\ cfg.num_workers > 0 ->
              \* iter_instances: instance workers, drained by list(...)
              /\ gen' = "gather"
              /\ instances' = {<<>>}
              /\ StartWorkers(cfg, "gather", max_instance_queue_size)
              /\ UNCHANGED <<genBatches, genPos, refreshing, call>>
         [] gen = "fresh" /\ ~BatchesInProcess ->
              \* batch workers on a new queue
              /\ gen' = "batch"
              /\ StartWorkers(cfg, "batch", max_batch_queue_size)
              /\ UNCHANGED <<instances, genBatches, genPos, refreshing, call>>
         [] gen = "inproc" /\ genPos < Len(genBatches) ->
              /\ genPos' = genPos + 1
              /\ call' = [call EXCEPT !.i = @ + 1]
              /\ refreshing' = FALSE
              /\ mainPc' = "caller"
              /\ UNCHANGED <<instances, gen, genBatches, streamVars>>
         [] gen = "inproc" /\ genPos >= Len(genBatches) ->
              /\ gen' = "dead"
              /\ mainPc' = "pexh"
              /\ UNCHANGED <<instances, genBatches, genPos, refreshing, call, streamVars>>
         [] gen = "batch" ->
              /\ mainPc' = "resume"
              /\ UNCHANGED <<instances, genVars, call, streamVars>>
         [] gen = "dead" ->
              /\ mainPc' = "pexh"
              /\ UNCHANGED <<instances, genVars, call, streamVars>>

\* ----------------------------------------------------------- __iter__
\* The generator __iter__ draws from raised StopIteration: without
\* batches_per_epoch the yield from ends; with it the except clause makes a
\* new generator and asks it once, and a StopIteration of that one leaves
\* the generator function as a RuntimeError.
IterPassExhausted ==
    /\ mainPc = "pexh"
    /\ UNCHANGED <<ctor, cfg, vocab, instances, genBatches, genPos, streamVars>>
    /\ IF IsNone(cfg.batches_per_epoch)
          THEN /\ lastResult' = "returned"
               /\ call' = Ended(call.i)
               /\ gen' = "None"
               /\ mainPc' = "caller"
               /\ UNCHANGED refreshing
       ELSE IF refreshing
          THEN /\ lastResult' = "RuntimeError"
               /\ call' = Ended(call.i)
               /\ gen' = "dead"
               /\ refreshing' = FALSE
               /\ mainPc' = "caller"
       ELSE /\ gen' = "fresh"
            /\ refreshing' = TRUE
            /\ mainPc' = "pnext"
            /\ UNCHANGED <<lastResult, call>>

\* a loop over range(self.batches_per_epoch + 1)
EpochDoneLate(i) == ~IsNone(cfg.batches_per_epoch) /\ i > Val(cfg.batches_per_epoch)

\* range(self.batches_per_epoch) is used up
EpochDone(i) == ~IsNone(cfg.batches_per_epoch) /\ i >= Val(cfg.batches_per_epoch)

\* index_with(vocab)
IndexWith ==
    /\ mainPc = "caller"
    /\ ctor = "ok"
    /\ call.op = "none"
    /\ ~vocab
    /\ vocab' = TRUE
    /\ UNCHANGED <<ctor, cfg, instances, genVars, call, lastResult, mainPc, streamVars>>

\* IterCall with self._batch_generator made before the vocabulary check
IterCallUnchecked ==
    /\ mainPc = "caller"
    /\ ctor = "ok"
    /\ call.op = "none"
    /\ IsNone(cfg.batches_per_epoch) => owner = "none"
    /\ UNCHANGED <<ctor, cfg, vocab, instances, genBatches, genPos, streamVars>>
    /\ gen' = IF IsNone(cfg.batches_per_epoch) \/ gen = "None" THEN "fresh" ELSE gen
    /\ IF ~vocab
          THEN /\ lastResult' = "NotIndexed"
               /\ UNCHANGED <<refreshing, call, mainPc>>
          ELSE /\ lastResult' = "none"
               /\ call' = [op |-> "iter", i |-> 0]
               /\ refreshing' = FALSE
               /\ mainPc' = "pnext"

\* IterCall that makes a new _iter_batches generator at every call
IterCallNewGenerator ==
    /\ mainPc = "caller"
    /\ ctor = "ok"
    /\ call.op = "none"
    /\ IsNone(cfg.batches_per_epoch) => owner = "none"
    /\ UNCHANGED <<ctor, cfg, vocab, instances, genBatches, genPos, streamVars>>
    /\ IF ~vocab
          THEN /\ lastResult' = "NotIndexed"
               /\ UNCHANGED <<gen, refreshing, call, mainPc>>
          ELSE /\ lastResult' = "none"
               /\ call' = [op |-> "iter", i |-> 0]
               /\ gen' = "fresh"
               /\ refreshing' = FALSE
               /\ mainPc' = "pnext"

\* iter(loader) and the first next(): the vocabulary check, then the first
\* batch is asked of the generator (self._batch_generator, made if None, or
\* a new _iter_batches()).
IterCall ==
    /\ mainPc = "caller"
    /\ ctor = "ok"
    /\ call.op = "none"
    /\ IsNone(cfg.batches_per_epoch) => owner = "none"
    /\ UNCHANGED <<ctor, cfg, vocab, instances, genBatches, genPos, streamVars>>
    /\ IF ~vocab
          THEN /\ lastResult' = "NotIndexed"
               /\ UNCHANGED <<gen, refreshing, call, mainPc>>
          ELSE /\ lastResult' = "none"
               /\ call' = [op |-> "iter", i |-> 0]
               /\ gen' = IF IsNone(cfg.batches_per_epoch) \/ gen = "None"
                            THEN "fresh" ELSE gen
               /\ refreshing' = FALSE
               /\ mainPc' = "pnext"

\* next() on the suspended __iter__ generator
IterNext ==
    /\ mainPc = "caller"
    /\ call.op = "iter"
    /\ UNCHANGED <<ctor, cfg, vocab, instances, genVars, streamVars>>
    /\ IF EpochDone(call.i)
          THEN lastResult' = "returned" /\ call' = Ended(call.i) /\ UNCHANGED mainPc
          ELSE mainPc' = "pnext" /\ UNCHANGED <<lastResult, call>>

\* IterAbandon that never closes the _iter_batches generator
IterAbandonNoClose ==
    /\ mainPc = "caller"
    /\ call.op = "iter"
    /\ lastResult' = "none"
    /\ call' = NoCall
    /\ gen' = IF IsNone(cfg.batches_per_epoch) THEN "None" ELSE gen
    /\ UNCHANGED <<ctor, cfg, vocab, instances, genBatches, genPos, refreshing,
                   mainPc, streamVars>>

\* The caller drops the suspended __iter__ generator (close()). With
\* batches_per_epoch, self._batch_generator stays as it is; without, the
\* _iter_batches generator is closed with it and its finally block runs.
IterAbandon ==
    /\ mainPc = "caller"
    /\ call.op = "iter"
    /\ UNCHANGED <<ctor, cfg, vocab, instances, genBatches, genPos, refreshing,
                   owner, queue, maxsize, unfinished, wpc, wpos, sent,
                   done_count, inHand, errText, yielded>>
    /\ IF ~IsNone(cfg.batches_per_epoch) \/ gen # "batch"
          THEN /\ lastResult' = "none"
               /\ call' = NoCall
               /\ gen' = IF IsNone(cfg.batches_per_epoch) THEN "None" ELSE gen
               /\ UNCHANGED <<mainPc, pending, joinI>>
          ELSE /\ pending' = "close"
               /\ mainPc' = "join_ack"
               /\ joinI' = 0
               /\ UNCHANGED <<lastResult, call, gen>>

\* ------------------------------------------------------ iter_instances
\* iter_instances() called by the user, and the first next()
InstCall ==
    /\ mainPc = "caller"
    /\ ctor = "ok"
    /\ call.op = "none"
    /\ owner = "none"
    /\ UNCHANGED <<ctor, cfg, vocab, genVars>>
    /\ IF InProcess
          THEN /\ IF Len(InstList) = 0
                     THEN lastResult' = "returned" /\ UNCHANGED call
                     ELSE lastResult' = "none" /\ call' = [op |-> "inst", i |-> 1]
               /\ instances' = IF IsNone(cfg.max_instances_in_memory) /\ Len(InstList) = 0
                                   THEN {<<>>} ELSE instances
               /\ UNCHANGED <<mainPc, streamVars>>
          ELSE /\ lastResult' = "none"
               /\ call' = [op |-> "inst", i |-> 0]
               /\ instances' = IF IsNone(cfg.max_instances_in_memory)
                                   THEN {<<>>} ELSE instances
               /\ StartWorkers(cfg, "inst", max_instance_queue_size)

\* next() on the suspended iter_instances generator
InstNext ==
    /\ mainPc = "caller"
    /\ call.op = "inst"
    /\ UNCHANGED <<ctor, cfg, vocab, instances, genVars, streamVars>>
    /\ IF owner = "inst"
          THEN mainPc' = "resume" /\ UNCHANGED <<lastResult, call>>
       ELSE IF call.i < Len(InstList)
          THEN call' = [call EXCEPT !.i = @ + 1] /\ UNCHANGED <<lastResult, mainPc>>
       ELSE lastResult' = "returned" /\ call' = Ended(call.i) /\ UNCHANGED mainPc

\* the caller drops the suspended iter_instances generator
InstAbandon ==
    /\ mainPc = "caller"
    /\ call.op = "inst"
    /\ UNCHANGED <<ctor, cfg, vocab, instances, genVars, owner, queue, maxsize,
                   unfinished, wpc, wpos, sent, done_count, inHand, errText,
                   yielded>>
    /\ IF owner = "inst"
          THEN /\ pending' = "close"
               /\ mainPc' = "join_ack"
               /\ joinI' = 0
               /\ UNCHANGED <<lastResult, call>>
          ELSE /\ lastResult' = "none"
               /\ call' = NoCall
               /\ UNCHANGED <<mainPc, pending, joinI>>

\* ------------------------------------------------------------ __len__
\* LenCall whose last branch sets up the cache before it raises
LenCallCaching ==
    /\ mainPc = "caller"
    /\ ctor = "ok"
    /\ call.op = "none"
    /\ UNCHANGED <<ctor, cfg, vocab, genVars>>
    /\ IF ~IsNone(cfg.batches_per_epoch)
          THEN /\ lastResult' = "length"
               /\ call' = Ended(Val(cfg.batches_per_epoch))
               /\ UNCHANGED <<instances, mainPc, streamVars>>
       ELSE IF ~IsNone(cfg.max_instances_in_memory)
          THEN /\ lastResult' = "TypeError"
               /\ instances' = {<<>>}
               /\ UNCHANGED <<call, mainPc, streamVars>>
       ELSE IF InProcess
          THEN /\ lastResult' = "length"
               /\ call' = Ended(NumBatches(cfg, Len(InstList)))
               /\ instances' = {InstList}
               /\ UNCHANGED <<mainPc, streamVars>>
       ELSE /\ lastResult' = "none"
            /\ call' = [op |-> "len", i |-> 0]
            /\ instances' = {<<>>}
            /\ StartWorkers(cfg, "len", max_instance_queue_size)

\* len(loader): batches_per_epoch when set; with max_instances_in_memory
\* None the count over the cache, read first (deque(self.iter_instances(),
\* maxlen=0)) when the cache holds nothing; else raise TypeError. The value
\* returned is kept in call.i.
LenCall ==
    /\ mainPc = "caller"
    /\ ctor = "ok"
    /\ call.op = "none"
    /\ UNCHANGED <<ctor, cfg, vocab, genVars>>
    /\ IF ~IsNone(cfg.batches_per_epoch)
          THEN /\ lastResult' = "length"
               /\ call' = Ended(Val(cfg.batches_per_epoch))
               /\ UNCHANGED <<instances, mainPc, streamVars>>
       ELSE IF ~IsNone(cfg.max_instances_in_memory)
          THEN /\ lastResult' = "TypeError"
               /\ UNCHANGED <<instances, call, mainPc, streamVars>>
       ELSE IF InProcess
          THEN /\ lastResult' = "length"
               /\ call' = Ended(NumBatches(cfg, Len(InstList)))
               /\ instances' = {InstList}
               /\ UNCHANGED <<mainPc, streamVars>>
       ELSE /\ lastResult' = "none"
            /\ call' = [op |-> "len", i |-> 0]
            /\ instances' = {<<>>}
            /\ StartWorkers(cfg, "len", max_instance_queue_size)

\* ------------------------------------------------------ specifications
ConstructRun == ctor = "new" /\ \E a \in RunArgs : Construct(a)

ConstructEpoch == ctor = "new" /\ \E a \in EpochArgs : Construct(a)

WorkerStep ==
    \E w \in 1..MaxWorkers :
        \/ WorkerPutValue(w)
        \/ WorkerPutError(w)
        \/ WorkerPutDone(w)
        \/ WorkerJoin(w)
        \/ WorkerExit(w)

Next ==
    \/ ConstructRun
    \/ WorkerStep
    \/ GetValue
    \/ GetError
    \/ GetDone
    \/ ConsumerResume
    \/ JoinAck
    \/ JoinTerminate
    \/ JoinDone
    \/ JoinReturn
    \/ PassNext
    \/ IterPassExhausted
    \/ IndexWith
    \/ IterCall
    \/ IterNext
    \/ IterAbandon
    \/ LenCall
    \/ InstCall
    \/ InstNext
    \/ InstAbandon

Spec == Init /\ [][Next]_vars

\* The loader with batches_per_epoch set or not, driven through __iter__.
NextEpoch ==
    \/ ConstructEpoch
    \/ WorkerStep
    \/ GetValue
    \/ GetError
    \/ GetDone
    \/ ConsumerResume
    \/ JoinAck
    \/ JoinTerminate
    \/ JoinDone
    \/ JoinReturn
    \/ PassNext
    \/ IterPassExhausted
    \/ IndexWith
    \/ IterCall
    \/ IterNext
    \/ IterAbandon
    \/ LenCall

SpecEpoch == Init /\ [][NextEpoch]_vars

\* ------------------------------------------ fan-in under fair scheduling
\* The loader with one or more workers, every operation that starts
\* consumed to its end: the processes are scheduled fairly (each worker,
\* and the main process inside a generator, goes on when it can), and the
\* caller keeps asking the generator it holds for the next item.
\* The fan-in sees of the arguments only the number of workers, what each
\* worker has to put (0..MaxShard values, an Error or not) and the maxsize of
\* the queue; batch_size 1 without drop_last makes every record a batch.
LiveArgs ==
    {a \in RunArgs : a.num_workers >= 1 /\ a.batch_size = {1} /\ ~a.drop_last}

ConstructLive == ctor = "new" /\ \E a \in LiveArgs : Construct(a)

\* what worker w's process can do next
WorkerRun(w) ==
    \/ WorkerPutValue(w)
    \/ WorkerPutError(w)
    \/ WorkerPutDone(w)
    \/ WorkerJoin(w)
    \/ WorkerExit(w)

\* what the main process can do next inside a generator or a drain
MainRun ==
    \/ GetValue
    \/ GetError
    \/ GetDone
    \/ ConsumerResume
    \/ JoinAck
    \/ JoinTerminate
    \/ JoinDone
    \/ JoinReturn
    \/ PassNext
    \/ IterPassExhausted

\* the caller asks for the next batch or instance
CallerPulls == IterNext \/ InstNext

NextLive ==
    \/ ConstructLive
    \/ WorkerStep
    \/ GetValue
    \/ GetError
    \/ GetDone
    \/ ConsumerResume
    \/ JoinAck
    \/ JoinTerminate
    \/ JoinDone
    \/ JoinReturn
    \/ PassNext
    \/ IterPassExhausted
    \/ IndexWith
    \/ IterCall
    \/ IterNext
    \/ InstCall
    \/ InstNext

\* ENABLED <<WorkerRun(w)>>_vars: a worker before a put goes on when the
\* queue has room, one at queue.join() or let go by it goes on
WorkerCanRun(w) ==
    \/ wpc[w] \in {"run", "fin"} /\ HasRoom
    \/ wpc[w] \in {"join", "released"}

\* WF_vars(WorkerRun(w)), its ENABLED written as WorkerCanRun(w)
WorkerFair(w) == []<>(~WorkerCanRun(w)) \/ []<><<WorkerRun(w)>>_vars

SpecLive ==
    /\ Init
    /\ [][NextLive]_vars
    /\ \A w \in 1..MaxWorkers : WorkerFair(w)
    /\ WF_vars(MainRun)
    /\ WF_vars(CallerPulls)

\* ------------------------------------------------ the batch builder alone
\* _instances_to_batches applied to whole sources: by _iter_batches in the
\* main process (num_workers <= 0) and by _batch_worker on its shard.
BuilderReader(nw) == [1..Max(nw, 1) -> [len : 0..MaxRecords, fails : {FALSE}]]

BuilderArgs ==
    UNION {{a \in [batch_size : Opt(1..MaxBatchSize) \ {{}}, drop_last : BOOLEAN,
                   shuffle : {FALSE}, batch_sampler : {{}},
                   batches_per_epoch : {{}}, num_workers : {nw},
                   max_instances_in_memory :
                       IF nw = 0 THEN Opt(1..MaxInMemory)
                                 ELSE Opt(1..MaxInMemory) \ {{}},
                   start_method : {"fork"}, pin_memory : {FALSE}, device : {{}},
                   reader : BuilderReader(nw)] :
               ValidationError(a) = "ok"} : nw \in 0..MaxWorkers}

InitBuilder ==
    /\ ctor = "ok"
    /\ cfg \in BuilderArgs
    /\ vocab = TRUE
    /\ instances = {}
    /\ gen = "None"
    /\ genBatches = <<>>
    /\ genPos = 0
    /\ refreshing = FALSE
    /\ call = NoCall
    /\ lastResult = "none"
    /\ mainPc = "caller"
    /\ owner = "none"
    /\ queue = <<>>
    /\ maxsize = {}
    /\ unfinished = 0
    /\ wpc = NoWorkers
    /\ wpos = [w \in 1..MaxWorkers |-> 0]
    /\ sent = [w \in 1..MaxWorkers |-> <<>>]
    /\ done_count = 0
    /\ inHand = {}
    /\ joinI = 0
    /\ pending = "none"
    /\ errText = 0
    /\ yielded = [w \in 1..MaxWorkers |-> <<>>]

\* for batch in self._instances_to_batches(self.iter_instances()), the
\* source read in the main process
BuildInProcess ==
    /\ gen = "None"
    /\ cfg.num_workers <= 0
    /\ gen' = "built"
    /\ genBatches' = instances_to_batches(cfg, ReadInProcess(cfg))
    /\ UNCHANGED <<ctor, cfg, vocab, instances, genPos, refreshing, call,
                   lastResult, mainPc, streamVars>>

\* for batch in self._instances_to_batches(instances) in _batch_worker w;
\* genPos keeps w
BuildInWorker ==
    /\ gen = "None"
    /\ cfg.num_workers > 0
    /\ \E w \in 1..cfg.num_workers :
          /\ genPos' = w
          /\ genBatches' = BatchValues(cfg, w)
    /\ gen' = "built"
    /\ UNCHANGED <<ctor, cfg, vocab, instances, refreshing, call, lastResult,
                   mainPc, streamVars>>

NextBuilder == BuildInProcess \/ BuildInWorker

SpecBuilder == InitBuilder /\ [][NextBuilder]_vars

\* ============================================================= claims
Count(s, k) == Cardinality({i \in 1..Len(s) : s[i] = k})

UpTo(n) == [j \in 1..n |-> j]

InJoin(w) == wpc[w] \in {"join", "wait", "released", "exited"}

\* C1: whatever a worker has put is Value*, then at most one Error, then at
\* most one Done, with nothing after the Done; a worker still reading has
\* put only values, one that caught its read's exception has put the Error
\* last, and one that has reached queue.join() has put exactly one Done, and
\* exactly one Error if its read raised and none if it did not.
C1_WorkerProtocol ==
    \A w \in 1..MaxWorkers :
        /\ \A i \in 1..Len(sent[w]) :
              /\ sent[w][i] = "D" => i = Len(sent[w])
              /\ sent[w][i] = "E" => \A j \in (i + 1)..Len(sent[w]) : sent[w][j] = "D"
        /\ wpc[w] = "run" => Count(sent[w], "V") = Len(sent[w])
        /\ wpc[w] = "fin" => Len(sent[w]) >= 1 /\ sent[w][Len(sent[w])] = "E"
        /\ InJoin(w) =>
              /\ Count(sent[w], "D") = 1
              /\ sent[w][Len(sent[w])] = "D"
              /\ Count(sent[w], "E") = (IF cfg.reader[w].fails THEN 1 ELSE 0)

C1_Witness ==
    \E w \in 1..MaxWorkers : wpc[w] = "wait" /\ sent[w] = <<"V", "E", "D">>

\* C2: when the fan-in loop has ended of itself (no error, not closed), it
\* has got num_workers Done messages, the queue is empty, no worker's read
\* raised, every worker has put all its values and its Done, and the loop
\* has yielded each worker's values 1..n once each.
C2_FanInComplete ==
    pending = "stop" =>
        /\ done_count = cfg.num_workers
        /\ queue = <<>>
        /\ \A w \in 1..cfg.num_workers :
              /\ ~cfg.reader[w].fails
              /\ Count(sent[w], "D") = 1
              /\ Count(sent[w], "V") = NumValues(w)
              /\ yielded[w] = UpTo(Count(sent[w], "V"))

C2_Witness ==
    /\ pending = "stop"
    /\ cfg.num_workers = 2
    /\ \A w \in 1..2 : Len(yielded[w]) = 2

\* C3: what the loop has yielded of any one worker is that worker's values
\* in the order it read and put them: its first, its second, ...
C3_ShardOrder ==
    \A w \in 1..MaxWorkers : \A i \in 1..Len(yielded[w]) : yielded[w][i] = i

C3_Witness ==
    /\ cfg.num_workers >= 2
    /\ \A w \in 1..cfg.num_workers : Len(yielded[w]) >= 2
    /\ Len(queue) >= 2

\* some worker's Error message has been got from the queue
ErrorPopped ==
    \E w \in 1..MaxWorkers :
        /\ Count(sent[w], "E") = 1
        /\ \A i \in 1..Len(queue) : ~(queue[i].kind = "E" /\ queue[i].w = w)

\* C4: once an Error message has been got, WorkerError is being raised with
\* the text of a worker whose read raised and whose Error was got; from
\* then on the call yields nothing more; the error does not reach the caller
\* while _join_workers runs; and it reaches the caller (the constructor's
\* caller for the load of __init__) from the end of _join_workers, with no
\* worker alive.
C4_ErrorAborts ==
    [][ErrorPopped =>
          /\ pending = "error"
          /\ mainPc \in {"join_ack", "join_term", "joined"}
          /\ errText \in 1..cfg.num_workers
          /\ cfg.reader[errText].fails
          /\ Count(sent[errText], "E") = 1
          /\ \A i \in 1..Len(queue) : ~(queue[i].kind = "E" /\ queue[i].w = errText)
          /\ \A w \in 1..MaxWorkers : Len(yielded'[w]) <= Len(yielded[w])
          /\ call'.i <= call.i
          /\ mainPc # "joined" =>
                /\ pending' = "error"
                /\ mainPc' \in {"join_ack", "join_term", "joined"}
                /\ UNCHANGED <<lastResult, ctor, call>>
          /\ (mainPc = "joined" /\ mainPc' # "joined") =>
                /\ \A w \in 1..MaxWorkers : ~Alive(w)
                /\ mainPc' = "caller"
                /\ call'.op = "none"
                /\ IF owner = "init" THEN ctor' = "WorkerError"
                                     ELSE lastResult' = "WorkerError"]_vars

C4_Witness ==
    /\ lastResult = "WorkerError"
    /\ call.op = "none"
    /\ cfg.num_workers = 2

\* C5: when _join_workers has run to its end, on whichever way the
\* generator was left, no worker is alive.
C5_TeardownKills ==
    mainPc = "joined" => \A w \in 1..MaxWorkers : ~Alive(w)

C5_Witness ==
    /\ mainPc = "joined"
    /\ pending = "close"
    /\ ~HasRoom
    /\ \E w \in 1..MaxWorkers : wpc[w] = "terminated" /\ Count(sent[w], "D") = 0
    /\ \E w \in 1..MaxWorkers : wpc[w] = "terminated" /\ Count(sent[w], "D") = 1

\* The raw-item topology with max_instances_in_memory set: iter_instances()
\* on instance workers.
RawBounded == owner = "inst" /\ ~IsNone(cfg.max_instances_in_memory)

\* C7 as claimed: the unacknowledged messages never exceed M * 4.
C7_Original ==
    RawBounded => unfinished <= Val(cfg.max_instances_in_memory) * 4

\* C7, amended: the messages put and not yet got never exceed M * 4; the
\* unacknowledged ones exceed the queued ones by at most num_workers (the
\* value the loop holds, and the Done and Error messages it never
\* acknowledges).
C7_QueueBound ==
    RawBounded =>
        /\ Len(queue) <= Val(cfg.max_instances_in_memory) * 4
        /\ unfinished <= Len(queue) + cfg.num_workers

C7_Witness ==
    /\ RawBounded
    /\ Len(queue) = Val(cfg.max_instances_in_memory) * 4
    /\ \E w \in 1..MaxWorkers : wpc[w] = "run" /\ wpos[w] < NumValues(w)
    /\ unfinished > Len(queue)

\* no operation under way
Idle == mainPc = "caller" /\ call.op = "none"

\* C6 as claimed: after a call of __iter__ has returned, none of its workers
\* is alive and no queue is left.
C6_Original ==
    (Idle /\ lastResult = "returned") =>
        /\ \A w \in 1..MaxWorkers : ~Alive(w)
        /\ owner = "none"

\* C6, amended: between operations a worker is alive, or a queue is left,
\* only as part of the batch generator that batches_per_epoch keeps in
\* self._batch_generator; without batches_per_epoch no generator is kept.
C6_WorkersWithGenerator ==
    Idle =>
        /\ ((\E w \in 1..MaxWorkers : Alive(w)) \/ owner # "none") =>
              /\ ~IsNone(cfg.batches_per_epoch)
              /\ gen = "batch"
              /\ owner = "batch"
        /\ IsNone(cfg.batches_per_epoch) => gen = "None"

C6_Witness ==
    /\ Idle
    /\ lastResult = "returned"
    /\ IsNone(cfg.batches_per_epoch)
    /\ IsNone(instances)
    /\ cfg.num_workers = 2
    /\ call.i >= 2

NoFail == \A w \in 1..NumShards(cfg) : ~cfg.reader[w].fails

RECURSIVE SumBatchValues(_)
SumBatchValues(n) ==
    IF n = 0 THEN 0 ELSE Len(BatchValues(cfg, n)) + SumBatchValues(n - 1)

\* The number of batches of one full pass of _iter_batches when no read
\* raises.
PassBatches ==
    IF ~IsNone(instances)
        THEN Len(instances_to_batches(cfg, Val(instances)))
    ELSE IF cfg.num_workers <= 0
        THEN Len(instances_to_batches(cfg, Records(cfg, 1)))
    ELSE SumBatchValues(cfg.num_workers)

EpochCallEnded ==
    /\ Idle
    /\ ~IsNone(cfg.batches_per_epoch)
    /\ lastResult \in {"returned", "RuntimeError", "WorkerError"}

\* C8 as claimed: a call of __iter__ with batches_per_epoch = k that is
\* consumed until it ends has yielded k batches.
C8_Original ==
    (EpochCallEnded /\ lastResult # "WorkerError") => call.i = Val(cfg.batches_per_epoch)

\* C8, what __iter__ does: a call that returns has yielded exactly k
\* batches; when no read raises and a full pass yields at least one batch,
\* every call consumed to its end returns; a call ends in RuntimeError,
\* short of k batches, only when a full pass yields no batch.
C8_EpochLength ==
    EpochCallEnded =>
        /\ lastResult = "returned" => call.i = Val(cfg.batches_per_epoch)
        /\ lastResult = "RuntimeError" =>
              NoFail /\ PassBatches = 0 /\ call.i < Val(cfg.batches_per_epoch)
        /\ (NoFail /\ PassBatches >= 1) => lastResult = "returned"

C8_Witness ==
    /\ EpochCallEnded
    /\ lastResult = "returned"
    /\ cfg.batches_per_epoch = {2}
    /\ PassBatches = 1
    /\ call.i = 2

\* C9: without a vocabulary no __iter__ call is under way and no generator,
\* queue or worker of one exists; the call that fails with the not-indexed
\* error changes nothing else.
C9_NotIndexed ==
    /\ [](~vocab => (call.op # "iter" /\ gen = "None" /\ owner \notin {"batch", "gather"}))
    /\ [][(lastResult' = "NotIndexed" /\ lastResult # "NotIndexed") =>
            /\ ~vocab
            /\ UNCHANGED <<ctor, cfg, vocab, instances, genVars, call, mainPc, streamVars>>]_vars

C9_Witness ==
    /\ lastResult = "NotIndexed"
    /\ ~IsNone(cfg.batches_per_epoch)
    /\ cfg.num_workers = 2

IsConfigError(c) == c \notin {"new", "ok", "loading", "WorkerError"}

\* C10: __init__ raises, with no record read and no worker started, when
\* batch_sampler comes with batch_size, drop_last or shuffle, and when
\* neither batch_sampler nor batch_size is given; a loader it does not
\* refuse has exactly one of batch_sampler and batch_size.
C10_SamplerExclusive ==
    ctor # "new" =>
        /\ (\/ /\ ~IsNone(cfg.batch_sampler)
               /\ (~IsNone(cfg.batch_size) \/ cfg.drop_last \/ cfg.shuffle)
            \/ IsNone(cfg.batch_sampler) /\ IsNone(cfg.batch_size)) =>
              /\ IsConfigError(ctor)
              /\ instances = {}
              /\ owner = "none"
              /\ wpc = NoWorkers
        /\ ~IsConfigError(ctor) => (IsNone(cfg.batch_sampler) # IsNone(cfg.batch_size))

C10_Witness ==
    /\ ctor = "batch_sampler option is mutually exclusive with shuffle"
    /\ instances = {}

\* C11: __init__ raises when max_instances_in_memory is set and smaller
\* than batch_size (both set) or smaller than 1 (batch_size not set), and
\* when batches_per_epoch is set and smaller than 1, with no record read
\* and no worker started; a loader it does not refuse has
\* max_instances_in_memory >= batch_size >= 1 when both are set,
\* max_instances_in_memory >= 1 when set, batches_per_epoch >= 1 when set.
C11_MemoryEpochChecked ==
    ctor # "new" =>
        /\ (\/ /\ ~IsNone(cfg.max_instances_in_memory)
               /\ ~IsNone(cfg.batch_size)
               /\ Val(cfg.max_instances_in_memory) < Val(cfg.batch_size)
            \/ /\ ~IsNone(cfg.max_instances_in_memory)
               /\ IsNone(cfg.batch_size)
               /\ Val(cfg.max_instances_in_memory) < 1
            \/ /\ ~IsNone(cfg.batches_per_epoch)
               /\ Val(cfg.batches_per_epoch) < 1) =>
              /\ IsConfigError(ctor)
              /\ instances = {}
              /\ owner = "none"
              /\ wpc = NoWorkers
        /\ ~IsConfigError(ctor) =>
              /\ ~IsNone(cfg.batch_size) => Val(cfg.batch_size) >= 1
              /\ ~IsNone(cfg.max_instances_in_memory) =>
                    /\ Val(cfg.max_instances_in_memory) >= 1
                    /\ ~IsNone(cfg.batch_size) =>
                          Val(cfg.max_instances_in_memory) >= Val(cfg.batch_size)
              /\ ~IsNone(cfg.batches_per_epoch) => Val(cfg.batches_per_epoch) >= 1

C11_Witness ==
    /\ ctor = "max_instances_in_memory must be at least batch_size"
    /\ cfg.max_instances_in_memory = {1}
    /\ cfg.batch_size = {2}
    /\ instances = {}

\* the first batches of bs, as long as they hold b records each
RECURSIVE FullPrefix(_, _)
FullPrefix(bs, b) ==
    IF Len(bs) = 0 \/ Len(Head(bs)) # b THEN 0 ELSE 1 + FullPrefix(Tail(bs), b)

\* C14: with num_workers = 0, no shuffle and no sampler, one pass over a
\* source of n records with batch size b yields the records in source order
\* in contiguous batches: with drop_last floor(n / b) batches of b records,
\* only the last n mod b records missing; without it ceil(n / b) batches,
\* all of b records but a last one of n mod b when that is not zero.
C14_ContiguousBatches ==
    (gen = "built" /\ cfg.num_workers = 0) =>
        LET n == cfg.reader[1].len
            b == Val(cfg.batch_size)
            kept == IF cfg.drop_last THEN (n \div b) * b ELSE n
        IN /\ Len(Flatten(genBatches)) = kept
           /\ \A i \in 1..kept : Id(Flatten(genBatches)[i]) = <<1, i>>
           /\ Len(genBatches) = IF cfg.drop_last THEN n \div b ELSE (n + b - 1) \div b
           /\ \A i \in 1..Len(genBatches) :
                 Len(genBatches[i]) =
                     IF i = Len(genBatches) /\ ~cfg.drop_last /\ n % b # 0
                         THEN n % b ELSE b

C14_Witness ==
    /\ gen = "built"
    /\ cfg.num_workers = 0
    /\ cfg.drop_last
    /\ cfg.reader[1].len = 7
    /\ cfg.batch_size = {3}
    /\ cfg.max_instances_in_memory = {3}
    /\ Len(genBatches) = 2

\* C17 as claimed: with max_instances_in_memory = M set and batch_size
\* b > 1, the window of _instances_to_batches is max(1, M div
\* max(num_workers, 1)) rounded up to a multiple of b, a positive multiple
\* of b, and of the batches built from one stream only the last may hold
\* fewer than b records.
C17_Original ==
    (/\ gen = "built"
     /\ ~IsNone(cfg.max_instances_in_memory)
     /\ Val(cfg.batch_size) > 1) =>
        LET b == Val(cfg.batch_size)
            m == Max(1, Val(cfg.max_instances_in_memory) \div Max(cfg.num_workers, 1))
        IN /\ ChunkSize(cfg) = ((m + b - 1) \div b) * b
           /\ ChunkSize(cfg) > 0
           /\ ChunkSize(cfg) % b = 0
           /\ FullPrefix(genBatches, b) >= Len(genBatches) - 1

\* C12: len(loader) is batches_per_epoch when that is set; otherwise, with
\* max_instances_in_memory None, n cached records and batch size b, it is
\* floor(n / b) under drop_last and ceil(n / b) without, which is the
\* number of batches a full pass over the cache builds and the number a
\* full __iter__ call has yielded when it returns.
C12_LengthIsPassLength ==
    /\ (Idle /\ lastResult = "length") =>
          IF ~IsNone(cfg.batches_per_epoch)
              THEN call.i = Val(cfg.batches_per_epoch)
              ELSE /\ IsNone(cfg.max_instances_in_memory)
                   /\ ~IsNone(instances)
                   /\ LET n == Len(Val(instances))
                          b == Val(cfg.batch_size)
                      IN call.i = IF cfg.drop_last THEN n \div b
                                                   ELSE (n + b - 1) \div b
                   /\ call.i = PassBatches
    /\ (/\ Idle
        /\ lastResult = "returned"
        /\ IsNone(cfg.batches_per_epoch)
        /\ IsNone(cfg.max_instances_in_memory)) =>
          call.i = NumBatches(cfg, Len(Val(instances)))

C12_Witness ==
    /\ Idle
    /\ lastResult = "length"
    /\ IsNone(cfg.batches_per_epoch)
    /\ cfg.drop_last
    /\ cfg.batch_size = {2}
    /\ Len(Val(instances)) = 3
    /\ call.i = 1

\* C13: with max_instances_in_memory set and batches_per_epoch None no
\* len(loader) returns a number, and the call that raises TypeError changes
\* nothing else: no record is read, no worker started, the cache stays None.
C13_LengthUnknown ==
    /\ [](lastResult = "length" =>
            (~IsNone(cfg.batches_per_epoch) \/ IsNone(cfg.max_instances_in_memory)))
    /\ [][(lastResult' = "TypeError" /\ lastResult # "TypeError") =>
            /\ IsNone(cfg.batches_per_epoch)
            /\ ~IsNone(cfg.max_instances_in_memory)
            /\ IsNone(instances')
            /\ UNCHANGED <<ctor, cfg, vocab, instances, genVars, call, mainPc, streamVars>>]_vars

C13_Witness ==
    /\ lastResult = "TypeError"
    /\ cfg.num_workers = 2
    /\ IsNone(instances)
    /\ vocab

Range(s) == {s[i] : i \in 1..Len(s)}

\* the Instances of the batch the _iter_batches generator has last yielded
\* in the main process
InProcessBatch ==
    IF gen = "inproc" /\ genPos >= 1 THEN Range(genBatches[genPos]) ELSE {}

\* the Instances of the batch got from a batch worker and not yet
\* acknowledged
WorkerBatch ==
    UNION {Range(BatchValues(cfg, m.w)[m.j]) : m \in {x \in inHand : owner = "batch"}}

\* the Instance _gather_instances has last yielded
GatheredInstance ==
    {Gathered(cfg, m) : m \in {x \in inHand : owner # "batch"}}

\* the Instance iter_instances has last yielded in the main process
YieldedInstance ==
    IF call.op = "inst" /\ owner = "none" /\ call.i >= 1
        THEN {InstList[call.i]} ELSE {}

CachedInstances == IF IsNone(instances) THEN {} ELSE Range(Val(instances))

HandedOut ==
    InProcessBatch \cup WorkerBatch \cup GatheredInstance
        \cup YieldedInstance \cup CachedInstances

\* C16 as claimed: apply_token_indexers has been called exactly once on
\* every Instance the loader has yielded, alone or in a batch, or holds in
\* its cache.
C16_Original == \A r \in HandedOut : r[3] = 1

\* C16, amended: apply_token_indexers has been called at least once on
\* every Instance yielded or cached; exactly once on the Instances of a
\* batch worker's batch and on those _gather_instances yields; at least
\* twice on the Instances of a batch built in the main process (once by
\* iter_instances or _gather_instances, and again by _index_instance in
\* every pass that batches them).
C16_AppliedAtLeastOnce ==
    /\ \A r \in HandedOut : r[3] >= 1
    /\ \A r \in WorkerBatch \cup GatheredInstance : r[3] = 1
    /\ \A r \in InProcessBatch : r[3] >= 2

C16_Witness ==
    /\ mainPc = "caller"
    /\ call.op = "iter"
    /\ InProcessBatch # {}
    /\ CachedInstances # {}
    /\ \A r \in CachedInstances : r[3] = 2
    /\ cfg.num_workers = 2

\* which records, in which order, a batch sequence holds
BatchIds(bs) == [i \in 1..Len(bs) |-> [j \in 1..Len(bs[i]) |-> Id(bs[i][j])]]

\* C15: with num_workers = 0, no shuffle and no batches_per_epoch, every
\* pass of __iter__, the first and any later one, goes through the batch
\* sequence that the source and the arguments alone determine, whatever
\* earlier passes and calls have left behind: the batches it yields are
\* that sequence's, in order, and a call that returns has yielded all of
\* them.
C15_SamePassEveryTime ==
    (cfg.num_workers = 0 /\ IsNone(cfg.batches_per_epoch) /\ ctor = "ok") =>
        /\ gen = "inproc" =>
              /\ BatchIds(genBatches) =
                    BatchIds(instances_to_batches(cfg, ReadInProcess(cfg)))
              /\ (mainPc = "caller" /\ call.op = "iter") => call.i = genPos
        /\ (Idle /\ lastResult = "returned") =>
              call.i = Len(instances_to_batches(cfg, ReadInProcess(cfg)))
        /\ ~IsNone(instances) => [i \in 1..Len(Val(instances)) |-> Id(Val(instances)[i])]
                                     = [i \in 1..cfg.reader[1].len |-> <<1, i>>]

\* a batch of a second or later pass over the cache has been yielded
C15_Witness ==
    /\ cfg.num_workers = 0
    /\ IsNone(cfg.batches_per_epoch)
    /\ mainPc = "caller"
    /\ call.op = "iter"
    /\ gen = "inproc"
    /\ genPos = 2
    /\ \E r \in InProcessBatch : r[3] = 3

\* _join_workers is running or has just ended
Teardown == mainPc \in {"join_ack", "join_term", "joined"}

\* worker w takes the step from its function to the end of its process
ExitsNow(w) == wpc[w] # "exited" /\ wpc'[w] = "exited"

\* C18 as claimed: a worker exits on its own only in a state where the
\* count of unacknowledged messages is zero.
C18_Original ==
    [][\A w \in 1..MaxWorkers : ExitsNow(w) => unfinished = 0]_vars

\* C18, amended: queue.join() lets a worker go only when the count of
\* unacknowledged messages is zero (it finds it zero, or the task_done that
\* brings it to zero notifies it), and that is only after the consumer has
\* entered _join_workers; no worker has returned from join before.
C18_ReleasedAtZero ==
    /\ [](\A w \in 1..MaxWorkers : wpc[w] \in {"released", "exited"} => Teardown)
    /\ [][\A w \in 1..MaxWorkers :
            (wpc[w] \in {"join", "wait"} /\ wpc'[w] \in {"released", "exited"}) =>
                /\ unfinished' = 0
                /\ Teardown]_vars

\* a worker let go by join, about to exit, and the count is not zero
C18_Witness ==
    /\ unfinished > 0
    /\ \E w \in 1..MaxWorkers : wpc[w] = "released"

RECURSIVE SumLen(_, _)
SumLen(f, n) == IF n = 0 THEN 0 ELSE Len(f[n]) + SumLen(f, n - 1)

\* the messages the workers have put
TotalSent == SumLen(sent, MaxWorkers)

\* the values the loop has yielded
TotalYielded == SumLen(yielded, MaxWorkers)

\* C19: when the fan-in loop has ended of itself, _join_workers starts with
\* exactly num_workers unacknowledged messages, each of its num_workers
\* task_done calls finds one to acknowledge, and after them the count is
\* zero and no worker is left waiting in queue.join() or before it.
C19_NormalTeardown ==
    pending = "stop" =>
        /\ mainPc = "join_ack" => unfinished = cfg.num_workers - joinI
        /\ mainPc \in {"join_term", "joined"} =>
              /\ unfinished = 0
              /\ \A w \in 1..cfg.num_workers :
                    wpc[w] \in {"join", "released", "exited", "terminated"}

C19_Witness ==
    /\ pending = "stop"
    /\ mainPc = "join_term"
    /\ joinI = 0
    /\ cfg.num_workers = 2
    /\ unfinished = 0
    /\ wpc[1] = "exited"
    /\ wpc[2] = "released"

\* worker w cannot go on by itself: it waits in queue.join(), or in put on
\* a full queue
Blocked(w) == wpc[w] = "wait" \/ (wpc[w] \in {"run", "fin"} /\ ~HasRoom)

\* C20: after raise WorkerError, _join_workers acknowledges at most
\* num_workers of the messages the loop has left unacknowledged; while it
\* terminates the workers the count no longer changes by the consumer, and a
\* worker then blocked in queue.join() or in put ends only by terminate().
C20_ErrorStrands ==
    /\ []((pending = "error" /\ mainPc = "join_term") =>
            /\ unfinished >= TotalSent - TotalYielded - cfg.num_workers
            /\ \A w \in 1..MaxWorkers : wpc[w] = "wait" => unfinished > 0)
    /\ [][\A w \in 1..MaxWorkers :
            (pending = "error" /\ mainPc = "join_term" /\ Blocked(w)) =>
                (wpc'[w] = wpc[w] \/ wpc'[w] = "terminated")]_vars

C20_Witness ==
    /\ pending = "error"
    /\ mainPc = "joined"
    /\ cfg.num_workers = 2
    /\ unfinished > 0
    /\ \E w \in 1..2 :
          /\ ~cfg.reader[w].fails
          /\ wpc[w] = "terminated"
          /\ Count(sent[w], "D") = 1
    /\ \A w \in 1..2 : wpc[w] # "exited"

\* every record of the source, whichever shard it is in
AllIds == UNION {{<<w, j>> : j \in 1..cfg.reader[w].len} : w \in 1..NumShards(cfg)}

\* the records the cache holds
CacheIds == {Id(r) : r \in CachedInstances}

\* C21: with max_instances_in_memory None the cache exists and holds every
\* record of the source once before a batch is built, no batch worker is
\* ever started, and whatever num_workers is the batches of a pass are built
\* in the main process from the cache; with max_instances_in_memory set the
\* cache stays None, a pass of _iter_batches runs on batch workers exactly
\* when num_workers > 0, and with num_workers <= 0 it builds the batches in
\* the main process from the source and no worker of any kind exists.
C21_Topology ==
    /\ ctor = "loading" => (gen = "None" /\ genBatches = <<>> /\ owner = "init")
    /\ ctor = "ok" =>
          IF IsNone(cfg.max_instances_in_memory)
              THEN /\ ~IsNone(instances)
                   /\ CacheIds = AllIds
                   /\ Len(Val(instances)) = Cardinality(AllIds)
                   /\ owner # "batch"
                   /\ gen # "batch"
                   /\ gen = "inproc" =>
                         BatchIds(genBatches) =
                             BatchIds(instances_to_batches(cfg, Val(instances)))
              ELSE /\ IsNone(instances)
                   /\ owner \notin {"init", "len", "gather"}
                   /\ gen # "gather"
                   /\ (gen = "batch") = (owner = "batch")
                   /\ gen \in {"batch", "inproc"} =>
                         (gen = "batch") = (cfg.num_workers > 0)
                   /\ gen = "inproc" =>
                         BatchIds(genBatches) =
                             BatchIds(instances_to_batches(cfg, ReadInProcess(cfg)))
                   /\ cfg.num_workers <= 0 => (wpc = NoWorkers /\ owner = "none")

\* a batch built in the main process from the cache, num_workers being 2
C21_Witness ==
    /\ ctor = "ok"
    /\ IsNone(cfg.max_instances_in_memory)
    /\ cfg.num_workers = 2
    /\ gen = "inproc"
    /\ genPos >= 1
    /\ Len(Val(instances)) >= 3
    /\ wpc = NoWorkers

\* how many batches of its pass the generator kept in
\* self._batch_generator has yielded
PassPos == IF BatchesInProcess THEN genPos ELSE TotalYielded

\* the step yields a batch to the caller of __iter__
YieldsBatch == call.op = "iter" /\ call'.op = "iter" /\ call'.i = call.i + 1

\* batches_per_epoch is set, no read raises, a full pass has a batch
EpochPasses ==
    /\ ctor = "ok"
    /\ ~IsNone(cfg.batches_per_epoch)
    /\ NoFail
    /\ PassBatches >= 1

\* C22: with batches_per_epoch set, no shuffle and a pass of n >= 1 batches,
\* the position in the pass belongs to the generator and not to the call:
\* a step that yields a batch moves it from p to p + 1 <= n and yields batch
\* p + 1 of the pass (with batch workers: the next batch of the worker it
\* comes from, which with one worker is batch p + 1 of the pass); every
\* other step, the start and the end of a call included, leaves it alone,
\* except that it goes back to 0 from n, the pass being exhausted. So the
\* j-th batch yielded over all calls is batch j mod n of the pass.
C22_PositionPersists ==
    [][EpochPasses =>
          /\ YieldsBatch =>
                /\ PassPos' = PassPos + 1
                /\ PassPos' <= PassBatches
                /\ IF BatchesInProcess
                      THEN /\ gen' = "inproc"
                           /\ BatchIds(genBatches')[PassPos'] =
                                 BatchIds(instances_to_batches(cfg, InstList))[PassPos']
                      ELSE \E m \in inHand' :
                              /\ m.j = Len(yielded[m.w]) + 1
                              /\ cfg.num_workers = 1 => m = Value(1, PassPos')
          /\ ~YieldsBatch =>
                \/ PassPos' = PassPos
                \/ PassPos' = 0 /\ PassPos = PassBatches]_vars

\* the second call has gone on where the first one stopped, used up the
\* pass of 3 batches and yielded the first batch of the next pass
C22_Witness ==
    /\ EpochPasses
    /\ cfg.batches_per_epoch = {2}
    /\ PassBatches = 3
    /\ mainPc = "caller"
    /\ call.op = "iter"
    /\ call.i = 2
    /\ gen = "inproc"
    /\ genPos = 1
    /\ \E r \in InProcessBatch : r[3] = 3

\* the consumer waits in queue.get() on an empty queue
ConsumerBlocked == mainPc = "get" /\ queue = <<>>

\* no state has the consumer waiting in get on an empty queue unless some
\* worker is still before one of its puts and the queue has room for it
NoFanInDeadlock ==
    ConsumerBlocked =>
        /\ HasRoom
        /\ \E w \in 1..cfg.num_workers : wpc[w] \in {"run", "fin"}
        /\ ~(\A w \in 1..cfg.num_workers : Blocked(w))

\* worker w has put its (None, None)
PutDone(w) == Count(sent[w], "D") = 1

\* a fan-in that has started ends, _join_workers included
FanInEnds == (owner # "none") ~> (owner = "none")

\* C23 as claimed: no fan-in deadlock; under fair scheduling every worker
\* that was started puts its Done message, whether or not a read raises,
\* and every fan-in ends with its teardown.
C23_Original ==
    /\ []NoFanInDeadlock
    /\ \A w \in 1..MaxWorkers : (wpc[w] = "run") ~> PutDone(w)
    /\ FanInEnds

\* C23, amended: no fan-in deadlock; under fair scheduling every fan-in
\* ends with its teardown; and every worker that was started puts its Done
\* message when no read raises, while after a read has raised a worker puts
\* its Done message or is terminated by _join_workers before it does.
C23_FanInTerminates ==
    /\ []NoFanInDeadlock
    /\ FanInEnds
    /\ \A w \in 1..MaxWorkers :
          (wpc[w] = "run") ~> (PutDone(w) \/ (~NoFail /\ wpc[w] = "terminated"))

\* on a full bounded queue both workers wait in put while the consumer
\* holds a batch
C23_Witness ==
    /\ owner = "batch"
    /\ cfg.num_workers = 2
    /\ ~HasRoom
    /\ \A w \in 1..2 : wpc[w] \in {"run", "fin"} /\ Blocked(w)
    /\ mainPc = "caller"

====
